---------------------------- MODULE Spec2Model ----------------------------
(***************************************************************************)
(* A model of netcalc: bit-strings (Prefix / Bits), the binary trie (Tree)  *)
(* with its set operations, range construction, the script evaluator and    *)
(* the line parser.  src/netcalc/alg.rs and src/netcalc/mod.rs hold two     *)
(* variants of the same types; functions whose code is the same in both     *)
(* files are modelled once, functions that differ are modelled per file.    *)
(*                                                                          *)
(* A bit is 0 or 1 (B0, B1), a bit-string a sequence of bits, a trie one of *)
(* Sat, Unsat, Mixed(l, r).  Result<T> is a record with ok = TRUE and val,  *)
(* or ok = FALSE and err.                                                   *)
(***************************************************************************)
EXTENDS Integers, Sequences, FiniteSets, TLC

VARIABLES
  ex_t, ex_ref, ex_n,
  fr_variant, fr_start, fr_end, fr_stack, fr_ret, fr_result, fr_pc,
  al_t, al_n,
  un_a, un_b, un_c, un_res, un_pc,
  cm_a, cm_b, cm_res, cm_pc,
  ch_bytes, ch_bits, ch_n, ch_res, ch_pc,
  pl_lines, pl_i, pl_out, pl_pc

execVars  == <<ex_t, ex_ref, ex_n>>
rangeVars == <<fr_variant, fr_start, fr_end, fr_stack, fr_ret, fr_result, fr_pc>>
algVars   == <<al_t, al_n>>
unionVars == <<un_a, un_b, un_c, un_res, un_pc>>
cmpVars   == <<cm_a, cm_b, cm_res, cm_pc>>
chunkVars == <<ch_bytes, ch_bits, ch_n, ch_res, ch_pc>>
parseVars == <<pl_lines, pl_i, pl_out, pl_pc>>
vars == <<execVars, rangeVars, algVars, unionVars, cmpVars, chunkVars, parseVars>>

(***************************************************************************)
(* Bounds of the model.                                                     *)
(***************************************************************************)
\* width of the addresses the script evaluator works on
ScriptW == 3
\* number of instructions of a script
MaxOps == 3
\* width of the bit-strings given to from_range
RangeW == 3
\* Mixed nodes of the tries the alg.rs operations start from and take as operand
AlgNodes == 2
\* length of the prefixes given to alg.rs add / del
AlgW == 2
\* operations applied in a row to an alg.rs trie
AlgOps == 3
\* Mixed nodes of the first two tries the union laws are evaluated on
UnionNodes == 2
\* Mixed nodes of the third trie the union laws are evaluated on
UnionNodesC == 1
\* length of the bit-strings given to partial_cmp
CmpLen == 3
\* bytes concatenated before chunks is called
MaxBytes == 2
\* lines of a script given to parse_lines
MaxLines == 3

(***************************************************************************)
(* Program constants.                                                       *)
(***************************************************************************)
\* u64::BITS
U64Bits == 64
\* the 0..=7 loop of from_u8 runs over the 8 bits of a u8
U8Bits == 8
\* bits.len() == 32 in parse_v4_addr, len <= 32 in parse_v4_cidr
V4Bits == 32

Min(a, b) == IF a <= b THEN a ELSE b
Max(a, b) == IF a >= b THEN a ELSE b

RECURSIVE Pow2(_)
Pow2(n) == IF n = 0 THEN 1 ELSE 2 * Pow2(n - 1)

Ok(v) == [ok |-> TRUE, val |-> v]
Err(m) == [ok |-> FALSE, err |-> m]

(***************************************************************************)
(* Bit-strings: Prefix (alg.rs) and Bits (mod.rs).                          *)
(***************************************************************************)
RECURSIVE BitsOfLen(_)
BitsOfLen(n) ==
  IF n = 0 THEN {<<>>}
  ELSE {Append(s, b) : s \in BitsOfLen(n - 1), b \in {0, 1}}

BitsUpTo(n) == UNION {BitsOfLen(k) : k \in 0..n}

\* Prefix::empty
empty == <<>>

\* Prefix::append: a copy with the bit pushed
append(p, bit) == Append(p, bit)

\* Prefix::extend
extend(p, other) == p \o other

\* Prefix::truncate: Vec::truncate keeps the first n elements, all when n >= len
truncate(p, n) == SubSeq(p, 1, Min(n, Len(p)))

\* u8::reverse_bits over the k low bits of n
RECURSIVE reverse_bits(_, _)
reverse_bits(n, k) ==
  IF k = 0 THEN 0
  ELSE (n % 2) * Pow2(k - 1) + reverse_bits(n \div 2, k - 1)

\* the loop of from_u8: push m & 1, then m >>= 1, k times
RECURSIVE from_u8_loop(_, _)
from_u8_loop(m, k) ==
  IF k = 0 THEN <<>>
  ELSE <<m % 2>> \o from_u8_loop(m \div 2, k - 1)

\* a from_u8 that forgets reverse_bits: the bits come out LSB-first
from_u8_lsb_first(n) == from_u8_loop(n, U8Bits)

\* Prefix::from_u8
from_u8(n) == from_u8_loop(reverse_bits(n, U8Bits), U8Bits)

\* the fold of to_u64: out <<= 1; out |= bit.  len <= 64 is ensured by the
\* caller below, so the shift never drops a bit of the u64.
RECURSIVE to_u64_loop(_, _, _)
to_u64_loop(bits, i, out) ==
  IF i > Len(bits) THEN out
  ELSE to_u64_loop(bits, i + 1, out * 2 + bits[i])

\* Prefix::to_u64
to_u64(bits) ==
  IF ~(Len(bits) <= U64Bits)
    THEN Err("Cannot convert to u64 from bits of length > 64")
    ELSE Ok(to_u64_loop(bits, 1, 0))

\* the for loop of chunks over self.0.chunks(n): slices of n bits, the last
\* one shorter when the length is no multiple of n
RECURSIVE chunks_loop(_, _, _)
chunks_loop(rest, n, out) ==
  IF Len(rest) = 0 THEN Ok(out)
  ELSE LET chunk == SubSeq(rest, 1, Min(n, Len(rest)))
           tail  == SubSeq(rest, Len(chunk) + 1, Len(rest))
           v     == to_u64(chunk)
       IN  IF ~(Len(chunk) = n) THEN Err("cannot chunk by non-uniform size")
           ELSE IF ~v.ok THEN v
           ELSE chunks_loop(tail, n, Append(out, v.val))

\* Prefix::chunks
chunks(bits, n) ==
  IF ~(n <= U64Bits) THEN Err("cannot chunk larger than u64")
  ELSE IF ~(0 < n) THEN Err("cannot chunk by 0")
  ELSE chunks_loop(bits, n, <<>>)

\* the zip_longest loop of partial_cmp, from position i on
RECURSIVE partial_cmp_from(_, _, _)
partial_cmp_from(a, b, i) ==
  IF i > Len(a) /\ i > Len(b) THEN "Equal"
  ELSE IF i > Len(a) THEN "None"
  ELSE IF i > Len(b) THEN "None"
  ELSE IF a[i] = b[i] THEN partial_cmp_from(a, b, i + 1)
  ELSE IF a[i] = 0 THEN "Less"
  ELSE "Greater"

\* a total order in its place: a proper prefix sorts before its extensions
RECURSIVE partial_cmp_total(_, _)
partial_cmp_total(a, b) ==
  IF Len(a) = 0 /\ Len(b) = 0 THEN "Equal"
  ELSE IF Len(a) = 0 THEN "Less"
  ELSE IF Len(b) = 0 THEN "Greater"
  ELSE IF Head(a) = Head(b) THEN partial_cmp_total(Tail(a), Tail(b))
  ELSE IF Head(a) = 0 THEN "Less"
  ELSE "Greater"

\* a partial_cmp that gives up as soon as the lengths differ
partial_cmp_by_length(a, b) ==
  IF Len(a) # Len(b) THEN "None" ELSE partial_cmp_from(a, b, 1)

\* impl PartialOrd for Prefix / Bits: "None" is Option::None
partial_cmp(a, b) == partial_cmp_from(a, b, 1)

\* the operators <, <=, >, >= PartialOrd derives from partial_cmp
lt(a, b) == partial_cmp(a, b) = "Less"
le(a, b) == partial_cmp(a, b) \in {"Less", "Equal"}
gt(a, b) == partial_cmp(a, b) = "Greater"
ge(a, b) == partial_cmp(a, b) \in {"Greater", "Equal"}


\* Prefix::split: the head bit and the rest; an error on the empty bit-string
split(p) ==
  IF ~(Len(p) > 0) THEN Err("Cannot split on empty prefix")
  ELSE Ok(<<p[1], SubSeq(p, 2, Len(p))>>)

(***************************************************************************)
(* The trie.                                                                *)
(***************************************************************************)
Sat == [k |-> "Sat"]
Unsat == [k |-> "Unsat"]
Mixed(l, r) == [k |-> "Mixed", l |-> l, r |-> r]

\* Tree::new
new == Unsat

\* Tree::mixed
mixed(l, r) == Mixed(l, r)

\* the tries with exactly n Mixed nodes, and with at most n
RECURSIVE TreesOfNodes(_)
TreesOfNodes(n) ==
  IF n = 0 THEN {Sat, Unsat}
  ELSE UNION {{Mixed(l, r) : l \in TreesOfNodes(i), r \in TreesOfNodes(n - 1 - i)} :
              i \in 0..(n - 1)}

TreesUpTo(n) == UNION {TreesOfNodes(i) : i \in 0..n}

\* Tree::flip (the same code in both files)
RECURSIVE flip(_)
flip(t) ==
  IF t.k = "Sat" THEN Unsat
  ELSE IF t.k = "Unsat" THEN Sat
  ELSE mixed(flip(t.l), flip(t.r))

\* an optimize that collapses Mixed(Sat, Sat) only
RECURSIVE optimize_sat_only(_)
optimize_sat_only(t) ==
  IF t.k = "Sat" THEN Sat
  ELSE IF t.k = "Unsat" THEN Unsat
  ELSE LET ol == optimize_sat_only(t.l)
           or == optimize_sat_only(t.r)
       IN  IF ol.k = "Sat" /\ or.k = "Sat" THEN Sat
           ELSE mixed(ol, or)

\* Tree::optimize (the same code in both files)
RECURSIVE optimize(_)
optimize(t) ==
  IF t.k = "Sat" THEN Sat
  ELSE IF t.k = "Unsat" THEN Unsat
  ELSE LET ol == optimize(t.l)
           or == optimize(t.r)
       IN  IF ol.k = "Sat" /\ or.k = "Sat" THEN Sat
           ELSE IF ol.k = "Unsat" /\ or.k = "Unsat" THEN Unsat
           ELSE mixed(ol, or)

RECURSIVE add(_, _)
\* an add whose (Mixed, B1) arm descends into the left child
add_wrong_side(t, prefix) ==
  IF Len(prefix) = 0 THEN Sat
  ELSE LET h  == split(prefix).val[1]
           tl == split(prefix).val[2]
       IN  IF t.k = "Sat" THEN Sat
           ELSE IF t.k = "Unsat" /\ h = 0 THEN mixed(add(Unsat, tl), Unsat)
           ELSE IF t.k = "Unsat" /\ h = 1 THEN mixed(Unsat, add(Unsat, tl))
           ELSE IF h = 0 THEN Mixed(add(t.l, tl), t.r)
           ELSE Mixed(add(t.l, tl), t.r)

\* Tree::add (mod.rs; alg.rs has the same code with Self::mixed)
add(t, prefix) ==
  IF Len(prefix) = 0 THEN Sat
  ELSE LET h  == split(prefix).val[1]
           tl == split(prefix).val[2]
       IN  IF t.k = "Sat" THEN Sat
           ELSE IF t.k = "Unsat" /\ h = 0 THEN mixed(add(Unsat, tl), Unsat)
           ELSE IF t.k = "Unsat" /\ h = 1 THEN mixed(Unsat, add(Unsat, tl))
           ELSE IF h = 0 THEN Mixed(add(t.l, tl), t.r)
           ELSE Mixed(t.l, add(t.r, tl))

\* Tree::del (alg.rs)
del(t, prefix) == flip(add(flip(t), prefix))

\* Tree::del_cidr (mod.rs)
del_cidr(t, cidr) == flip(add(flip(t), cidr))

RECURSIVE union(_, _)
\* a union whose (Unsat, b) arm yields Unsat
union_drops_right(a, b) ==
  IF b.k = "Sat" THEN Sat
  ELSE IF b.k = "Unsat" THEN a
  ELSE IF a.k = "Sat" THEN Sat
  ELSE IF a.k = "Unsat" THEN Unsat
  ELSE optimize(mixed(union(a.l, b.l), union(a.r, b.r)))

\* Tree::union (alg.rs); the arms in the order of the match
union(a, b) ==
  IF b.k = "Sat" THEN Sat
  ELSE IF b.k = "Unsat" THEN a
  ELSE IF a.k = "Sat" THEN Sat
  ELSE IF a.k = "Unsat" THEN b
  ELSE optimize(mixed(union(a.l, b.l), union(a.r, b.r)))

\* Tree::difference (alg.rs)
RECURSIVE difference(_, _)
difference(a, b) ==
  IF b.k = "Sat" THEN Unsat
  ELSE IF b.k = "Unsat" THEN a
  ELSE IF a.k = "Sat" THEN flip(b)
  ELSE IF a.k = "Unsat" THEN Unsat
  ELSE optimize(mixed(difference(a.l, b.l), difference(a.r, b.r)))

\* Tree::add_tree, Tree::del_tree (alg.rs)
add_tree(t, tree) == union(t, tree)
del_tree(t, tree) == difference(t, tree)

\* Tree::prefixes_from (alg.rs) / Tree::prefixes_priv (mod.rs)
RECURSIVE prefixes_from(_, _)
prefixes_from(t, prefix) ==
  IF t.k = "Sat" THEN <<prefix>>
  ELSE IF t.k = "Unsat" THEN <<>>
  ELSE prefixes_from(t.l, append(prefix, 0)) \o prefixes_from(t.r, append(prefix, 1))

\* a prefixes that enumerates the trie as it stands, without optimize
prefixes_unoptimized(t) == prefixes_from(t, empty)

\* Tree::prefixes (alg.rs; mod.rs has the same code)
prefixes(t) == prefixes_from(optimize(t), empty)

(***************************************************************************)
(* What a trie and a list of prefixes denote, for the statements below.     *)
(***************************************************************************)
IsPrefix(p, x) == Len(p) <= Len(x) /\ SubSeq(x, 1, Len(p)) = p

\* the bit-strings of length w under prefix p
Cover(p, w) == {x \in BitsOfLen(w) : IsPrefix(p, x)}

\* the bit-strings of length w covered by some element of the list ps
Covered(ps, w) == {x \in BitsOfLen(w) : \E i \in DOMAIN ps : IsPrefix(ps[i], x)}

\* a bit-string read MSB-first as an unsigned integer
RECURSIVE ToInt(_)
ToInt(x) == IF Len(x) = 0 THEN 0 ELSE 2 * ToInt(SubSeq(x, 1, Len(x) - 1)) + x[Len(x)]

\* no Mixed(Sat, Sat) and no Mixed(Unsat, Unsat) anywhere in t
RECURSIVE Canonical(_)
Canonical(t) ==
  IF t.k # "Mixed" THEN TRUE
  ELSE /\ ~(t.l.k = "Sat" /\ t.r.k = "Sat")
       /\ ~(t.l.k = "Unsat" /\ t.r.k = "Unsat")
       /\ Canonical(t.l)
       /\ Canonical(t.r)

\* the number of branches on the longest root-to-leaf path
RECURSIVE Depth(_)
Depth(t) == IF t.k # "Mixed" THEN 0 ELSE 1 + Max(Depth(t.l), Depth(t.r))

(***************************************************************************)
(* Values of the variables a specification does not use.                    *)
(***************************************************************************)
IdleExec == ex_t = Unsat /\ ex_ref = {} /\ ex_n = 0
IdleRange ==
  /\ fr_variant = "alg" /\ fr_start = <<>> /\ fr_end = <<>> /\ fr_stack = <<>>
  /\ fr_ret = <<>> /\ fr_result = Unsat /\ fr_pc = "idle"
IdleAlg == al_t = Unsat /\ al_n = 0
IdleUnion == un_a = Unsat /\ un_b = Unsat /\ un_c = Unsat /\ un_res = <<>> /\ un_pc = "idle"
IdleCmp == cm_a = <<>> /\ cm_b = <<>> /\ cm_res = "None" /\ cm_pc = "idle"
IdleChunk == ch_bytes = <<>> /\ ch_bits = <<>> /\ ch_n = 0 /\ ch_res = Ok(<<>>) /\ ch_pc = "idle"
IdleParse == pl_lines = <<>> /\ pl_i = 0 /\ pl_out = <<>> /\ pl_pc = "idle"

(***************************************************************************)
(* exec_instructions (mod.rs): the fold of Add / Del over a fresh trie.     *)
(* ex_t is t, ex_n the number of instructions executed; ex_ref is the       *)
(* reference set of ScriptW-bit strings, kept beside the trie.              *)
(***************************************************************************)
\* let mut t = Tree::new()
ExecStart == ex_t = new /\ ex_ref = {} /\ ex_n = 0

\* Add(p) => t = t.add(p.clone())
ExecAdd(p) ==
  /\ ex_n < MaxOps
  /\ ex_t' = add(ex_t, p)
  /\ ex_ref' = ex_ref \cup Cover(p, ScriptW)
  /\ ex_n' = ex_n + 1
  /\ UNCHANGED <<rangeVars, algVars, unionVars, cmpVars, chunkVars, parseVars>>

\* Del(p) => t = t.del_cidr(p.clone())
ExecDel(p) ==
  /\ ex_n < MaxOps
  /\ ex_t' = del_cidr(ex_t, p)
  /\ ex_ref' = ex_ref \ Cover(p, ScriptW)
  /\ ex_n' = ex_n + 1
  /\ UNCHANGED <<rangeVars, algVars, unionVars, cmpVars, chunkVars, parseVars>>

NextExec ==
  \/ \E p \in BitsUpTo(ScriptW) : ExecAdd(p)
  \/ \E p \in BitsUpTo(ScriptW) : ExecDel(p)

InitExec ==
  ExecStart /\ IdleRange /\ IdleAlg /\ IdleUnion /\ IdleCmp /\ IdleChunk /\ IdleParse

SpecExec == InitExec /\ [][NextExec]_vars

\* C1 as stated: after every step of a script the trie holds no Mixed(Sat, Sat)
\* and no Mixed(Unsat, Unsat) node.
C1_CanonicalAfterEveryStep == Canonical(ex_t)

\* C1, amended: add and del_cidr leave the trie un-normalized, and the trie
\* that prefixes enumerates, t.optimize(), holds no Mixed(Sat, Sat) and no
\* Mixed(Unsat, Unsat) node after any script.
C1_CanonicalAfterOptimize == Canonical(optimize(ex_t))

C1_Witness == ex_n = MaxOps /\ ~Canonical(ex_t) /\ optimize(ex_t) # ex_t

\* C2: after any script, the ScriptW-bit strings covered by prefixes(t) are
\* those of the reference set (insert for each Add, remove for each Del, in
\* order), that is, those whose last covering instruction is an Add.
C2_ScriptSetSemantics == Covered(prefixes(ex_t), ScriptW) = ex_ref

C2_Witness ==
  /\ ex_n = MaxOps
  /\ ex_ref # {} /\ ex_ref # BitsOfLen(ScriptW)
  /\ Len(prefixes(ex_t)) >= 2
  /\ ~Canonical(ex_t)

(***************************************************************************)
(* from_range / from_range_at, in both files.  The recursion of             *)
(* from_range_at runs on an explicit stack: a frame holds curr, the stage   *)
(* of the call ("enter": not started, "left": waiting for the left child,   *)
(* "right": waiting for the right child) and the left child's result.       *)
(* fr_ret holds the value a call has just returned, if any.  A frame may    *)
(* only recurse while curr has at most RangeW bits, which bounds the model; *)
(* the code has no such limit.                                              *)
(***************************************************************************)
Frame(curr) == [curr |-> curr, stage |-> "enter", left |-> Unsat]

\* an ensure that rejects start = end too
from_range_ensure_strict(start, end) == lt(start, end)

\* ensure!(start <= end, ...) of alg.rs from_range
from_range_ensure(start, end) == le(start, end)

\* the two early returns of from_range_at
from_range_at_case(curr, start, end) ==
  IF lt(curr, start) \/ gt(curr, end) THEN "Unsat"
  ELSE IF le(start, curr) /\ le(curr, end) THEN "Sat"
  ELSE "Recurse"

\* the last expression of from_range_at in alg.rs:
\* Self::mixed(left, right).optimize()
from_range_at_join_alg(left, right) == optimize(mixed(left, right))

\* the last expression of from_range_at in mod.rs:
\* Mixed(Box::new(left.optimize()), Box::new(right.optimize()))
from_range_at_join_mod(left, right) == Mixed(optimize(left), optimize(right))

from_range_at_join(variant, left, right) ==
  IF variant = "alg" THEN from_range_at_join_alg(left, right)
  ELSE from_range_at_join_mod(left, right)

RangeStart ==
  /\ fr_variant \in {"alg", "mod"}
  /\ fr_start \in BitsUpTo(RangeW)
  /\ fr_end \in BitsUpTo(RangeW)
  /\ fr_stack = <<>>
  /\ fr_ret = <<>>
  /\ fr_result = Unsat
  /\ fr_pc = "call"

\* from_range: alg.rs checks start <= end first, mod.rs does not
FromRange ==
  /\ fr_pc = "call"
  /\ IF fr_variant = "alg" /\ ~from_range_ensure(fr_start, fr_end)
       THEN fr_pc' = "err" /\ UNCHANGED fr_stack
       ELSE fr_pc' = "run" /\ fr_stack' = <<Frame(empty)>>
  /\ UNCHANGED <<fr_variant, fr_start, fr_end, fr_ret, fr_result>>
  /\ UNCHANGED <<execVars, algVars, unionVars, cmpVars, chunkVars, parseVars>>

\* from_range_at is entered with the top frame's curr
RangeEnter ==
  /\ fr_pc = "run" /\ fr_ret = <<>> /\ Len(fr_stack) > 0
  /\ LET n   == Len(fr_stack)
         top == fr_stack[n]
         c   == from_range_at_case(top.curr, fr_start, fr_end)
     IN  /\ top.stage = "enter"
         /\ c = "Recurse" => Len(top.curr) <= RangeW
         /\ IF c = "Unsat" THEN fr_ret' = <<Unsat>> /\ fr_stack' = SubSeq(fr_stack, 1, n - 1)
            ELSE IF c = "Sat" THEN fr_ret' = <<Sat>> /\ fr_stack' = SubSeq(fr_stack, 1, n - 1)
            ELSE /\ fr_ret' = <<>>
                 /\ fr_stack' = Append([fr_stack EXCEPT ![n].stage = "left"],
                                       Frame(append(top.curr, 0)))
  /\ UNCHANGED <<fr_variant, fr_start, fr_end, fr_result, fr_pc>>
  /\ UNCHANGED <<execVars, algVars, unionVars, cmpVars, chunkVars, parseVars>>

\* a call of from_range_at returns to its caller
RangeReturn ==
  /\ fr_pc = "run" /\ Len(fr_ret) = 1
  /\ LET n == Len(fr_stack)
         v == fr_ret[1]
     IN  IF n = 0
           THEN fr_result' = v /\ fr_pc' = "ok" /\ fr_ret' = <<>> /\ UNCHANGED fr_stack
         ELSE IF fr_stack[n].stage = "left"
           THEN /\ fr_stack' = Append([fr_stack EXCEPT ![n].stage = "right", ![n].left = v],
                                      Frame(append(fr_stack[n].curr, 1)))
                /\ fr_ret' = <<>>
                /\ UNCHANGED <<fr_result, fr_pc>>
         ELSE /\ fr_ret' = <<from_range_at_join(fr_variant, fr_stack[n].left, v)>>
              /\ fr_stack' = SubSeq(fr_stack, 1, n - 1)
              /\ UNCHANGED <<fr_result, fr_pc>>
  /\ UNCHANGED <<fr_variant, fr_start, fr_end>>
  /\ UNCHANGED <<execVars, algVars, unionVars, cmpVars, chunkVars, parseVars>>

NextRange == FromRange \/ RangeEnter \/ RangeReturn

InitRange ==
  RangeStart /\ IdleExec /\ IdleAlg /\ IdleUnion /\ IdleCmp /\ IdleChunk /\ IdleParse

SpecRange == InitRange /\ [][NextRange]_vars

\* the bit-string of length w that reads as n, MSB-first
RECURSIVE ToBits(_, _)
ToBits(n, w) == IF w = 0 THEN <<>> ELSE Append(ToBits(n \div 2, w - 1), n % 2)

\* t with every w-bit string lo, lo + 1, ..., hi added one by one
RECURSIVE AddEach(_, _, _, _)
AddEach(t, w, lo, hi) ==
  IF lo > hi THEN t ELSE AddEach(add(t, ToBits(lo, w)), w, lo + 1, hi)

\* a is before b in the bitwise lexicographic order of equal-length strings
LexLess(a, b) ==
  \E i \in 1..Len(a) : a[i] = 0 /\ b[i] = 1 /\ \A j \in 1..(i - 1) : a[j] = b[j]

\* C3: for equal-length start <= end, alg.rs from_range does not fail, runs
\* to its end, and returns a trie that denotes exactly the strings of the
\* closed interval and equals the trie built by adding each of them to the
\* empty trie and optimizing.
C3_RangeEquivalence ==
  (fr_variant = "alg" /\ Len(fr_start) = Len(fr_end) /\ ToInt(fr_start) <= ToInt(fr_end))
    => /\ fr_pc # "err"
       /\ fr_pc \in {"call", "run"} => ENABLED NextRange
       /\ fr_pc = "ok" =>
            /\ Covered(prefixes(fr_result), Len(fr_start)) =
                 {x \in BitsOfLen(Len(fr_start)) :
                    ToInt(fr_start) <= ToInt(x) /\ ToInt(x) <= ToInt(fr_end)}
            /\ fr_result =
                 optimize(AddEach(new, Len(fr_start), ToInt(fr_start), ToInt(fr_end)))

C3_Witness ==
  /\ fr_variant = "alg" /\ fr_pc = "ok"
  /\ Len(fr_start) = RangeW /\ Len(fr_end) = RangeW
  /\ ToInt(fr_start) = 1 /\ ToInt(fr_end) = Pow2(RangeW) - 2
  /\ Len(prefixes(fr_result)) >= 4

\* C4: for equal-length start and end, alg.rs from_range fails if and only
\* if start > end in the bitwise lexicographic order; for start <= end,
\* start = end included, it goes on to build a trie and is never stuck on
\* the way.
C4_InvertedRangeRejected ==
  (fr_variant = "alg" /\ Len(fr_start) = Len(fr_end) /\ fr_pc # "call")
    => /\ fr_pc = "err" <=> LexLess(fr_end, fr_start)
       /\ fr_pc = "run" => ENABLED NextRange

C4_Witness ==
  /\ fr_variant = "alg" /\ fr_pc = "err"
  /\ Len(fr_start) = RangeW /\ Len(fr_end) = RangeW

\* C10 as stated: in both variants, for start and end of any lengths up to
\* RangeW, from_range_at never extends curr beyond max(len(start), len(end))
\* bits, and a returned trie has no path of more than RangeW branches.
C10_DepthBound ==
  /\ \A i \in DOMAIN fr_stack :
       Len(fr_stack[i].curr) <= Max(Len(fr_start), Len(fr_end))
  /\ fr_pc = "ok" => Depth(fr_result) <= RangeW

\* the same for the alg.rs variant alone
C10_DepthBoundAlg == fr_variant = "alg" => C10_DepthBound

(***************************************************************************)
(* The alg.rs trie under its operations: al_t starts as any trie of at most *)
(* AlgNodes Mixed nodes, normalized or not, and add, del, add_tree and      *)
(* del_tree are applied to it, al_n counting the operations.                *)
(***************************************************************************)
AlgStart == al_t \in TreesUpTo(AlgNodes) /\ al_n = 0

AlgAdd(p) ==
  /\ al_n < AlgOps
  /\ al_t' = add(al_t, p)
  /\ al_n' = al_n + 1
  /\ UNCHANGED <<execVars, rangeVars, unionVars, cmpVars, chunkVars, parseVars>>

AlgDel(p) ==
  /\ al_n < AlgOps
  /\ al_t' = del(al_t, p)
  /\ al_n' = al_n + 1
  /\ UNCHANGED <<execVars, rangeVars, unionVars, cmpVars, chunkVars, parseVars>>

AlgAddTree(u) ==
  /\ al_n < AlgOps
  /\ al_t' = add_tree(al_t, u)
  /\ al_n' = al_n + 1
  /\ UNCHANGED <<execVars, rangeVars, unionVars, cmpVars, chunkVars, parseVars>>

AlgDelTree(u) ==
  /\ al_n < AlgOps
  /\ al_t' = del_tree(al_t, u)
  /\ al_n' = al_n + 1
  /\ UNCHANGED <<execVars, rangeVars, unionVars, cmpVars, chunkVars, parseVars>>

NextAlg ==
  \/ \E p \in BitsUpTo(AlgW) : AlgAdd(p)
  \/ \E p \in BitsUpTo(AlgW) : AlgDel(p)
  \/ \E u \in TreesUpTo(AlgNodes) : AlgAddTree(u)
  \/ \E u \in TreesUpTo(AlgNodes) : AlgDelTree(u)

InitAlg ==
  AlgStart /\ IdleExec /\ IdleRange /\ IdleUnion /\ IdleCmp /\ IdleChunk /\ IdleParse

SpecAlg == InitAlg /\ [][NextAlg]_vars

\* two elements of the list ps have the same length and differ only in
\* their last bit
SiblingPair(ps) ==
  \E i, j \in DOMAIN ps :
    /\ Len(ps[i]) > 0 /\ Len(ps[i]) = Len(ps[j])
    /\ SubSeq(ps[i], 1, Len(ps[i]) - 1) = SubSeq(ps[j], 1, Len(ps[j]) - 1)
    /\ ps[i][Len(ps[i])] # ps[j][Len(ps[j])]

\* C5: for every trie, normalized or not, and every trie add, del, add_tree
\* and del_tree make of it, prefixes() holds no two bit-strings of the same
\* length that differ only in their last bit.
C5_Minimality == ~SiblingPair(prefixes(al_t))

C5_Witness ==
  /\ al_n = AlgOps
  /\ ~Canonical(al_t)
  /\ SiblingPair(prefixes_from(al_t, empty))
  /\ Len(prefixes(al_t)) >= 2

(***************************************************************************)
(* union (alg.rs) called on three tries: un_a and un_b of at most           *)
(* UnionNodes Mixed nodes, un_c of at most UnionNodesC; un_res holds the    *)
(* values the laws compare.                                                 *)
(***************************************************************************)
UnionStart ==
  /\ un_a \in TreesUpTo(UnionNodes)
  /\ un_b \in TreesUpTo(UnionNodes)
  /\ un_c = Unsat
  /\ un_res = <<>>
  /\ un_pc = "start"

\* the calls of union the laws are about, on un_a, un_b and a third trie c
UnionLaws(c) ==
  /\ un_pc = "start"
  /\ un_c' = c
  /\ UNCHANGED <<un_a, un_b>>
  /\ un_res' = [ab    |-> union(un_a, un_b),
                ba    |-> union(un_b, un_a),
                ab_c  |-> union(union(un_a, un_b), c),
                a_bc  |-> union(un_a, union(un_b, c)),
                aa    |-> union(un_a, un_a),
                a_un  |-> union(un_a, Unsat),
                a_sat |-> union(un_a, Sat)]
  /\ un_pc' = "done"
  /\ UNCHANGED <<execVars, rangeVars, algVars, cmpVars, chunkVars, parseVars>>

NextUnion == \E c \in TreesUpTo(UnionNodesC) : UnionLaws(c)

InitUnion ==
  UnionStart /\ IdleExec /\ IdleRange /\ IdleAlg /\ IdleCmp /\ IdleChunk /\ IdleParse

SpecUnion == InitUnion /\ [][NextUnion]_vars

\* C7 as stated: on all tries, equality being equality of the trie values,
\* union is commutative, associative and idempotent, Unsat is its identity
\* and Sat absorbs.
C7_UnionLawsStructural ==
  un_pc = "done" =>
    /\ un_res.ab = un_res.ba
    /\ un_res.ab_c = un_res.a_bc
    /\ un_res.aa = un_a
    /\ un_res.a_un = un_a
    /\ un_res.a_sat = Sat

\* C7, amended: on all tries union(a, b) = union(b, a), union(t, Unsat) = t
\* and union(t, Sat) = Sat as trie values; associativity and idempotence
\* hold up to optimize, and as trie values when the operands hold no
\* Mixed(Sat, Sat) and no Mixed(Unsat, Unsat) node.
C7_UnionLaws ==
  un_pc = "done" =>
    /\ un_res.ab = un_res.ba
    /\ un_res.a_un = un_a
    /\ un_res.a_sat = Sat
    /\ optimize(un_res.ab_c) = optimize(un_res.a_bc)
    /\ optimize(un_res.aa) = optimize(un_a)
    /\ (Canonical(un_a) /\ Canonical(un_b) /\ Canonical(un_c))
         => un_res.ab_c = un_res.a_bc
    /\ Canonical(un_a) => un_res.aa = un_a

C7_Witness ==
  /\ un_pc = "done"
  /\ un_a.k = "Mixed" /\ un_b.k = "Mixed" /\ un_c.k = "Mixed"
  /\ ~Canonical(un_c)
  /\ un_res.ab_c # un_res.a_bc
  /\ un_res.aa # un_a

(***************************************************************************)
(* partial_cmp applied to two bit-strings of at most CmpLen bits.           *)
(***************************************************************************)
CmpStart ==
  /\ cm_a \in BitsUpTo(CmpLen)
  /\ cm_b \in BitsUpTo(CmpLen)
  /\ cm_res = "None"
  /\ cm_pc = "start"

Compare ==
  /\ cm_pc = "start"
  /\ cm_res' = partial_cmp(cm_a, cm_b)
  /\ cm_pc' = "done"
  /\ UNCHANGED <<cm_a, cm_b>>
  /\ UNCHANGED <<execVars, rangeVars, algVars, unionVars, chunkVars, parseVars>>

NextCmp == Compare

InitCmp ==
  CmpStart /\ IdleExec /\ IdleRange /\ IdleAlg /\ IdleUnion /\ IdleChunk /\ IdleParse

SpecCmp == InitCmp /\ [][NextCmp]_vars

\* a and b differ at position i and agree before it
FirstDiff(a, b, i) ==
  /\ i <= Len(a) /\ i <= Len(b)
  /\ a[i] # b[i]
  /\ \A j \in 1..(i - 1) : a[j] = b[j]

\* C8 as stated: partial_cmp returns an ordering only for equal lengths, and
\* then the lexicographic one; it returns None whenever the lengths differ.
C8_NoneWheneverLengthsDiffer ==
  cm_pc = "done" =>
    /\ Len(cm_a) # Len(cm_b) => cm_res = "None"
    /\ Len(cm_a) = Len(cm_b) =>
         /\ cm_res = "Less" <=> ToInt(cm_a) < ToInt(cm_b)
         /\ cm_res = "Equal" <=> cm_a = cm_b
         /\ cm_res = "Greater" <=> ToInt(cm_a) > ToInt(cm_b)

\* C8, amended: partial_cmp returns None exactly when one bit-string is a
\* proper prefix of the other; otherwise it returns Equal for equal strings
\* and Less or Greater by the first bit at which they differ, whatever the
\* lengths; for equal lengths that is the lexicographic ordering.
C8_NoneOnlyForProperPrefix ==
  cm_pc = "done" =>
    /\ cm_res = "None" <=>
         (cm_a # cm_b /\ (IsPrefix(cm_a, cm_b) \/ IsPrefix(cm_b, cm_a)))
    /\ cm_res = "Equal" <=> cm_a = cm_b
    /\ cm_res = "Less" <=>
         \E i \in 1..CmpLen : FirstDiff(cm_a, cm_b, i) /\ cm_a[i] = 0
    /\ cm_res = "Greater" <=>
         \E i \in 1..CmpLen : FirstDiff(cm_a, cm_b, i) /\ cm_a[i] = 1
    /\ Len(cm_a) = Len(cm_b) =>
         /\ cm_res = "Less" <=> ToInt(cm_a) < ToInt(cm_b)
         /\ cm_res = "Greater" <=> ToInt(cm_a) > ToInt(cm_b)

C8_Witness ==
  /\ cm_pc = "done"
  /\ Len(cm_a) < Len(cm_b)
  /\ cm_res = "Less"

(***************************************************************************)
(* from_u8, extend and chunks: bytes are appended to ch_bits one by one     *)
(* (ch_bytes remembers them), then chunks(ch_n) is called once.             *)
(***************************************************************************)
ByteSamples == {0, 1, 2, 3, 4, 85, 127, 128, 170, 255}

ChunkStart ==
  /\ ch_bytes = <<>>
  /\ ch_bits = empty
  /\ ch_n = 0
  /\ ch_res = Ok(<<>>)
  /\ ch_pc = "build"

\* prefix.extend(Prefix::from_u8(b))
ChunkExtend(b) ==
  /\ ch_pc = "build"
  /\ Len(ch_bytes) < MaxBytes
  /\ ch_bits' = extend(ch_bits, from_u8(b))
  /\ ch_bytes' = Append(ch_bytes, b)
  /\ UNCHANGED <<ch_n, ch_res, ch_pc>>
  /\ UNCHANGED <<execVars, rangeVars, algVars, unionVars, cmpVars, parseVars>>

\* prefix.chunks(n)
Chunks(n) ==
  /\ ch_pc = "build"
  /\ ch_n' = n
  /\ ch_res' = chunks(ch_bits, n)
  /\ ch_pc' = "done"
  /\ UNCHANGED <<ch_bytes, ch_bits>>
  /\ UNCHANGED <<execVars, rangeVars, algVars, unionVars, cmpVars, parseVars>>

NextChunk ==
  \/ \E b \in ByteSamples : ChunkExtend(b)
  \/ \E n \in 0..(U64Bits + 1) : Chunks(n)

InitChunk ==
  ChunkStart /\ IdleExec /\ IdleRange /\ IdleAlg /\ IdleUnion /\ IdleCmp /\ IdleParse

SpecChunk == InitChunk /\ [][NextChunk]_vars

\* C9: the bit-string built from bytes b1..bk by from_u8 and extend has 8k
\* bits; chunks(8) returns Ok([b1, ..., bk]); chunks(n) is an error for
\* n = 0, for n > 64 and for a length that is no multiple of n.
C9_ByteRoundTrip ==
  /\ Len(ch_bits) = 8 * Len(ch_bytes)
  /\ ch_pc = "done" =>
       /\ ch_n = 8 => ch_res = Ok(ch_bytes)
       /\ (ch_n = 0 \/ ch_n > 64) => ~ch_res.ok
       /\ (ch_n > 0 /\ Len(ch_bits) % ch_n # 0) => ~ch_res.ok

C9_Witness ==
  /\ ch_pc = "done" /\ ch_n = 8
  /\ Len(ch_bytes) = MaxBytes
  /\ ch_bytes[1] = 1 /\ ch_bytes[MaxBytes] = 128
  /\ ch_res.ok

(***************************************************************************)
(* Instruction::parse_lines (mod.rs).  A string is a sequence of            *)
(* one-character strings; pl_lines is what s.lines() yields, pl_i the line  *)
(* the loop is at, pl_out the vector out, pl_pc "loop" while the loop runs, *)
(* then "ok" (Ok(out)), "err" (an Err returned) or "panic".                 *)
(***************************************************************************)
Digits == <<"0", "1", "2", "3", "4", "5", "6", "7", "8", "9">>
IsDigit(c) == \E i \in DOMAIN Digits : Digits[i] = c
DigitVal(c) == (CHOOSE i \in DOMAIN Digits : Digits[i] = c) - 1

\* str::trim, whitespace being the blank
RECURSIVE trim_start(_)
trim_start(s) == IF Len(s) > 0 /\ s[1] = " " THEN trim_start(Tail(s)) ELSE s
RECURSIVE trim_end(_)
trim_end(s) ==
  IF Len(s) > 0 /\ s[Len(s)] = " " THEN trim_end(SubSeq(s, 1, Len(s) - 1)) ELSE s
trim(s) == trim_end(trim_start(s))

\* str::split(sep): the pieces between the occurrences of sep, cur being
\* the piece under way
RECURSIVE str_split(_, _, _)
str_split(s, sep, cur) ==
  IF Len(s) = 0 THEN <<cur>>
  ELSE IF s[1] = sep THEN <<cur>> \o str_split(Tail(s), sep, <<>>)
  ELSE str_split(Tail(s), sep, Append(cur, s[1]))

\* the digit loop of u8::from_str: checked multiply and add in a u8
RECURSIVE u8_digits(_, _)
u8_digits(s, acc) ==
  IF Len(s) = 0 THEN Ok(acc)
  ELSE IF ~IsDigit(s[1]) THEN Err("invalid digit found in string")
  ELSE IF acc * 10 + DigitVal(s[1]) > 255 THEN Err("number too large to fit in target type")
  ELSE u8_digits(Tail(s), acc * 10 + DigitVal(s[1]))

\* u8::from_str: an optional + sign, then at least one digit
u8_from_str(s) ==
  IF Len(s) = 0 THEN Err("cannot parse integer from empty string")
  ELSE IF Len(s) = 1 /\ s[1] \in {"+", "-"} THEN Err("invalid digit found in string")
  ELSE IF s[1] = "+" THEN u8_digits(Tail(s), 0)
  ELSE u8_digits(s, 0)

\* the for loop of parse_v4_addr over the segments
RECURSIVE parse_v4_addr_loop(_, _)
parse_v4_addr_loop(segments, bits) ==
  IF Len(segments) = 0 THEN Ok(bits)
  ELSE LET byte == u8_from_str(segments[1])
       IN  IF ~byte.ok THEN byte
           ELSE parse_v4_addr_loop(Tail(segments), extend(bits, from_u8(byte.val)))

\* Bits::parse_v4_addr
parse_v4_addr(s) ==
  LET bits == parse_v4_addr_loop(str_split(s, ".", <<>>), empty)
  IN  IF ~bits.ok THEN bits
      ELSE IF ~(Len(bits.val) = V4Bits) THEN Err("Invalid IPv4 Address")
      ELSE bits

\* Bits::parse_v4_cidr
parse_v4_cidr(s) ==
  LET parts == str_split(s, "/", <<>>)
  IN  IF Len(parts) = 2
        THEN LET addr == parse_v4_addr(parts[1])
                 len  == u8_from_str(parts[2])
             IN  IF ~addr.ok THEN addr
                 ELSE IF ~len.ok THEN len
                 ELSE IF ~(len.val <= V4Bits) THEN Err("Invalid IPv4 CIDR prefix length")
                 ELSE Ok(truncate(addr.val, len.val))
        ELSE Err("Invalid IPv4 CIDR")

\* Bits::parse_v4
parse_v4(s) ==
  IF parse_v4_cidr(s).ok THEN parse_v4_cidr(s) ELSE parse_v4_addr(s)

\* the body of the for loop of parse_lines for one line: what it does to
\* out, or how it leaves the function.  &line[..1] panics on a string
\* shorter than one byte, so the "" arm of the match is never reached.
parse_line(raw) ==
  LET line == trim(raw)
  IN  IF Len(line) < 1 THEN [kind |-> "panic"]
      ELSE LET head == line[1]
               rest == Tail(line)
           IN  IF head = "#" THEN [kind |-> "skip"]
               ELSE IF head = "+" THEN
                 IF parse_v4(rest).ok
                   THEN [kind |-> "push", inst |-> [op |-> "Add", bits |-> parse_v4(rest).val]]
                   ELSE [kind |-> "err"]
               ELSE IF head = "-" THEN
                 IF parse_v4(rest).ok
                   THEN [kind |-> "push", inst |-> [op |-> "Del", bits |-> parse_v4(rest).val]]
                   ELSE [kind |-> "err"]
               ELSE [kind |-> "err"]

SampleLines ==
  { <<>>,
    <<" ">>,
    <<"#">>,
    <<" ", "#", " ", "x">>,
    <<"+", "1", ".", "2", ".", "3", ".", "4">>,
    <<" ", "-", "1", "0", ".", "0", ".", "0", ".", "0", "/", "8", " ">>,
    <<"+", "1", ".", "2", ".", "3", "0", "0", ".", "4">>,
    <<"x">> }

RECURSIVE SeqsOfLen(_, _)
SeqsOfLen(S, n) ==
  IF n = 0 THEN {<<>>} ELSE {Append(q, e) : q \in SeqsOfLen(S, n - 1), e \in S}

ParseStart ==
  /\ pl_lines \in UNION {SeqsOfLen(SampleLines, n) : n \in 0..MaxLines}
  /\ pl_i = 1
  /\ pl_out = <<>>
  /\ pl_pc = "loop"

\* one turn of for line in s.lines()
ParseLine ==
  /\ pl_pc = "loop" /\ pl_i <= Len(pl_lines)
  /\ LET r == parse_line(pl_lines[pl_i])
     IN  IF r.kind = "skip" THEN pl_i' = pl_i + 1 /\ UNCHANGED <<pl_out, pl_pc>>
         ELSE IF r.kind = "push"
           THEN pl_i' = pl_i + 1 /\ pl_out' = Append(pl_out, r.inst) /\ UNCHANGED pl_pc
         ELSE pl_pc' = r.kind /\ UNCHANGED <<pl_i, pl_out>>
  /\ UNCHANGED pl_lines
  /\ UNCHANGED <<execVars, rangeVars, algVars, unionVars, cmpVars, chunkVars>>

\* Ok(out) after the last line
ParseEnd ==
  /\ pl_pc = "loop" /\ pl_i > Len(pl_lines)
  /\ pl_pc' = "ok"
  /\ UNCHANGED <<pl_lines, pl_i, pl_out>>
  /\ UNCHANGED <<execVars, rangeVars, algVars, unionVars, cmpVars, chunkVars>>

NextParse == ParseLine \/ ParseEnd

InitParse ==
  ParseStart /\ IdleExec /\ IdleRange /\ IdleAlg /\ IdleUnion /\ IdleCmp /\ IdleChunk

SpecParse == InitParse /\ [][NextParse]_vars

\* a line that is empty after trimming, and a line that starts with #
BlankLine(raw) == Len(trim(raw)) = 0
CommentLine(raw) == Len(trim(raw)) > 0 /\ trim(raw)[1] = "#"

BlankOrComment(raw) == BlankLine(raw) \/ CommentLine(raw)

\* the lines of a script without its comment lines and, with blanks, without
\* its blank lines too
RECURSIVE Without(_, _)
Without(lines, blanks) ==
  IF Len(lines) = 0 THEN <<>>
  ELSE IF CommentLine(lines[1]) \/ (blanks /\ BlankLine(lines[1]))
    THEN Without(Tail(lines), blanks)
  ELSE <<lines[1]>> \o Without(Tail(lines), blanks)

\* how parse_lines ends on the given lines: the loop above run to its end
RECURSIVE Outcome(_, _)
Outcome(lines, out) ==
  IF Len(lines) = 0 THEN [pc |-> "ok", out |-> out]
  ELSE LET r == parse_line(lines[1])
       IN  IF r.kind = "skip" THEN Outcome(Tail(lines), out)
           ELSE IF r.kind = "push" THEN Outcome(Tail(lines), Append(out, r.inst))
           ELSE [pc |-> r.kind, out |-> <<>>]

Ended == [pc |-> pl_pc, out |-> IF pl_pc = "ok" THEN pl_out ELSE <<>>]

\* C6 as stated: blank lines and comment lines are no-ops: parse_lines ends
\* on a script as it ends on the script without them, and never panics on
\* one of them.
C6_BlankAndCommentLinesAreNoops ==
  pl_pc # "loop" =>
    /\ Ended = Outcome(Without(pl_lines, TRUE), <<>>)
    /\ pl_pc = "panic" => ~BlankOrComment(pl_lines[pl_i])

\* the same for comment lines alone, which holds
C6_CommentLinesAreNoops ==
  pl_pc # "loop" => Ended = Outcome(Without(pl_lines, FALSE), <<>>)

=============================================================================
